---- MODULE Spec2Model ----
(***************************************************************************)
(* Model of extract_wacz.py: conversion of a WACZ archive into a harvest   *)
(* directory.  A Python str is a sequence of one-character strings.  The   *)
(* filesystem is the POSIX one the script runs on: a set of directories    *)
(* and a map from file paths to contents, a path being the sequence of its *)
(* components.  Each conversion (prepare_and_run) is a process; the        *)
(* processes share the archive and the filesystem.                         *)
(***************************************************************************)
EXTENDS Integers, Sequences, FiniteSets, TLC

VARIABLES wacz_path,        \* args.wacz_path
          datapackage,      \* the archive's datapackage.json
          filelist,         \* wacz_zip.filelist
          fs,               \* the filesystem: [dirs, files]
          pc,               \* position of each conversion
          harvest_metadata, \* local of prepare_and_run
          harvest_name,     \* local of prepare_and_run
          idx,              \* position of the loop of extract_from_to
          raised            \* the exception that ended the conversion

vars == <<wacz_path, datapackage, filelist, fs, pc, harvest_metadata,
          harvest_name, idx, raised>>

(***************************************************************************)
(* Bounds of the explored input space.                                     *)
(***************************************************************************)
NProcs == 2
MaxEntries == 2
MaxCreatedLen == 8
MaxPathLen == 3

Procs == 1..NProcs

(***************************************************************************)
(* String literals.                                                        *)
(***************************************************************************)
HARVEST_NAME_PREFIX == <<"L", "i", "n", "k", "r", "a">>
SCRIPT_NAME == "extract_wacz.py"
SCRIPT_VERSION == "1.0.0"
DateLen == 7

ARCHIVE_ZIP_PATH == <<"a", "r", "c", "h", "i", "v", "e", "/">>
INDEXES_ZIP_PATH == <<"i", "n", "d", "e", "x", "e", "s", "/">>
WARC_GZ == <<".", "w", "a", "r", "c", ".", "g", "z">>
DATA_WARC_GZ == <<"d", "a", "t", "a">> \o WARC_GZ
LOGS == <<"l", "o", "g", "s">>
LOGS_CDX == LOGS \o <<"/", "c", "d", "x">>
LOGS_CRAWL == LOGS \o <<"/", "c", "r", "a", "w", "l">>
LOGS_CRAWL_INFO == LOGS_CRAWL \o <<"/", "i", "n", "f", "o", ".", "t", "x", "t">>
TARGET_PATH == <<"o", "u", "t">>

(***************************************************************************)
(* str operations.                                                         *)
(***************************************************************************)
Min(a, b) == IF a < b THEN a ELSE b

\* s[:n]
Slice(s, n) == SubSeq(s, 1, Min(n, Len(s)))

\* s.startswith(pre)
StartsWith(s, pre) == Len(s) >= Len(pre) /\ SubSeq(s, 1, Len(pre)) = pre

\* s.find(c) + 1 and s.rfind(c) + 1: 0 when c does not occur
Find(s, c) ==
    IF \E i \in 1..Len(s) : s[i] = c
    THEN CHOOSE i \in 1..Len(s) : s[i] = c /\ \A j \in 1..(i - 1) : s[j] # c
    ELSE 0

RFind(s, c) ==
    IF \E i \in 1..Len(s) : s[i] = c
    THEN CHOOSE i \in 1..Len(s) : s[i] = c /\ \A j \in (i + 1)..Len(s) : s[j] # c
    ELSE 0

\* a split at the last dot instead of the first
SplitLastDot(s) ==
    IF RFind(s, ".") = 0 THEN s ELSE SubSeq(s, 1, RFind(s, ".") - 1)

\* s.split(".")[0]
SplitFirstDot(s) ==
    IF Find(s, ".") = 0 THEN s ELSE SubSeq(s, 1, Find(s, ".") - 1)

\* os.path.basename(p) and the tail of os.path.split(p)
Basename(p) == SubSeq(p, RFind(p, "/") + 1, Len(p))

\* os.path.join(a, b)
PathJoin(a, b) ==
    IF StartsWith(b, <<"/">>) THEN b
    ELSE IF a = <<>> \/ a[Len(a)] = "/" THEN a \o b
    ELSE a \o <<"/">> \o b

\* s.split("/")
RECURSIVE SplitSep(_)
SplitSep(s) ==
    IF Find(s, "/") = 0 THEN <<s>>
    ELSE <<SubSeq(s, 1, Find(s, "/") - 1)>>
         \o SplitSep(SubSeq(s, Find(s, "/") + 1, Len(s)))

RECURSIVE Without(_, _)
Without(seq, bad) ==
    IF seq = <<>> THEN <<>>
    ELSE IF seq[1] \in bad THEN Without(Tail(seq), bad)
    ELSE <<seq[1]>> \o Without(Tail(seq), bad)

\* the components the kernel walks for a relative path string
Resolve(s) == Without(SplitSep(s), {<<>>, <<".">>})

Parent(p) == SubSeq(p, 1, Len(p) - 1)
Last(p) == p[Len(p)]

(***************************************************************************)
(* The filesystem.  Every operation yields the filesystem it leaves and    *)
(* the exception it raises ("none" when it returns).                       *)
(***************************************************************************)
IsDir(f, p) == p \in f.dirs
IsFile(f, p) == p \in DOMAIN f.files
Exists(f, p) == IsDir(f, p) \/ IsFile(f, p)
IsPrefix(p, q) == Len(p) <= Len(q) /\ SubSeq(q, 1, Len(p)) = p
Children(f, p) == {q \in f.dirs \cup DOMAIN f.files : q # <<>> /\ Parent(q) = p}

Ok(f) == [fs |-> f, err |-> "none"]
Raise(f, e) == [fs |-> f, err |-> e]

WriteFile(f, p, data) ==
    [f EXCEPT !.files = [q \in DOMAIN f.files \cup {p} |->
                            IF q = p THEN data ELSE f.files[q]]]

\* os.mkdir that accepts an existing directory
OsMkdirExistOk(f, s) ==
    LET p == Resolve(s) IN
    IF p # <<>> /\ ~Exists(f, Parent(p)) THEN Raise(f, "FileNotFoundError")
    ELSE Ok([f EXCEPT !.dirs = @ \cup {p}])

\* os.mkdir(s)
OsMkdir(f, s) ==
    LET p == Resolve(s) IN
    IF p = <<>> THEN Raise(f, "FileExistsError")
    ELSE IF ~Exists(f, Parent(p)) THEN Raise(f, "FileNotFoundError")
    ELSE IF IsFile(f, Parent(p)) THEN Raise(f, "NotADirectoryError")
    ELSE IF Exists(f, p) THEN Raise(f, "FileExistsError")
    ELSE Ok([f EXCEPT !.dirs = @ \cup {p}])

\* os.makedirs(p) as ZipFile._extract_member uses it, p not existing
OsMakedirs(f, p) ==
    IF \E n \in 0..Len(p) : IsFile(f, SubSeq(p, 1, n))
    THEN Raise(f, "NotADirectoryError")
    ELSE Ok([f EXCEPT !.dirs = @ \cup {SubSeq(p, 1, n) : n \in 0..Len(p)}])

\* os.rmdir(s)
OsRmdir(f, s) ==
    LET p == Resolve(s) IN
    IF ~Exists(f, p) THEN Raise(f, "FileNotFoundError")
    ELSE IF IsFile(f, p) THEN Raise(f, "NotADirectoryError")
    ELSE IF Children(f, p) # {} \/ p = <<>> THEN Raise(f, "OSError")
    ELSE Ok([f EXCEPT !.dirs = @ \ {p}])

\* the tree under p carried to q
Rebase(x, p, q) == q \o SubSeq(x, Len(p) + 1, Len(x))

MoveTree(f, p, q) ==
    LET md == {x \in f.dirs : IsPrefix(p, x)}
        mf == {x \in DOMAIN f.files : IsPrefix(p, x)}
        keep == DOMAIN f.files \ mf
        src(y) == CHOOSE x \in mf : Rebase(x, p, q) = y
    IN  [dirs  |-> (f.dirs \ md) \cup {Rebase(x, p, q) : x \in md},
         files |-> [y \in keep \cup {Rebase(x, p, q) : x \in mf} |->
                       IF y \in keep THEN f.files[y] ELSE f.files[src(y)]]]

\* os.rename(p, q) on POSIX, on resolved paths: a file replaces an existing
\* file silently.  (shutil.move falls back to a copy when os.rename raises;
\* the copy raises in the same cases.)
OsRename(f, p, q) ==
    IF ~Exists(f, p) THEN Raise(f, "FileNotFoundError")
    ELSE IF ~Exists(f, Parent(q)) THEN Raise(f, "FileNotFoundError")
    ELSE IF IsFile(f, Parent(q)) THEN Raise(f, "NotADirectoryError")
    ELSE IF p = q THEN Ok(f)
    ELSE IF IsFile(f, p)
         THEN IF IsDir(f, q) THEN Raise(f, "IsADirectoryError")
              ELSE Ok(MoveTree([f EXCEPT !.files =
                                   [x \in DOMAIN f.files \ {q} |-> f.files[x]]],
                               p, q))
    ELSE IF IsPrefix(p, q) THEN Raise(f, "OSError")
    ELSE IF IsFile(f, q) THEN Raise(f, "NotADirectoryError")
    ELSE IF IsDir(f, q) /\ Children(f, q) # {} THEN Raise(f, "OSError")
    ELSE Ok(MoveTree(f, p, q))

\* shutil.move(src, dst)
ShutilMove(f, src, dst) ==
    LET s == Resolve(src)
        d == Resolve(dst)
        real_dst == IF IsDir(f, d) THEN d \o <<Last(s)>> ELSE d
    IN  IF IsDir(f, d) /\ s = d THEN OsRename(f, s, d)
        ELSE IF IsDir(f, d) /\ Exists(f, real_dst) THEN Raise(f, "shutil.Error")
        ELSE OsRename(f, s, real_dst)

(***************************************************************************)
(* The archive.  An entry of wacz_zip.filelist is [filename, data]; an     *)
(* entry whose name ends with "/" is a directory marker (ZipInfo.is_dir).  *)
(***************************************************************************)
IsDirEntry(zip_info) ==
    zip_info.filename # <<>> /\ zip_info.filename[Len(zip_info.filename)] = "/"

\* wacz_zip.extract(zip_info, to_path)
ZipExtract(f, zip_info, to_path) ==
    LET arcname == Without(SplitSep(zip_info.filename), {<<>>, <<".">>, <<".", ".">>})
        target == Resolve(to_path) \o arcname
        upperdirs == Parent(target)
        made == IF Exists(f, upperdirs) THEN Ok(f) ELSE OsMakedirs(f, upperdirs)
    IN  IF made.err # "none" THEN made
        ELSE IF IsDirEntry(zip_info)
             THEN IF IsDir(made.fs, target) THEN made
                  ELSE IF IsFile(made.fs, target)
                       THEN Raise(made.fs, "FileExistsError")
                  ELSE Ok([made.fs EXCEPT !.dirs = @ \cup {target}])
        ELSE IF IsFile(made.fs, upperdirs) THEN Raise(made.fs, "NotADirectoryError")
        ELSE IF IsDir(made.fs, target) THEN Raise(made.fs, "IsADirectoryError")
        ELSE Ok(WriteFile(made.fs, target, zip_info.data))

(***************************************************************************)
(* Metadata.  The parsed datapackage.json is a function from its keys to   *)
(* their values; an optional field is {} (None) or {value}.                *)
(***************************************************************************)
MISSING == [kind |-> "missing", object |-> <<>>]     \* no datapackage.json
MALFORMED == [kind |-> "malformed", object |-> <<>>] \* it is not JSON
Parsed(obj) == [kind |-> "object", object |-> obj]

\* the constructor with a default in place of the exception
RequiredHarvestMetadataLenient(obj) ==
    IF "created" \in DOMAIN obj
    THEN [err |-> "none", full_date |-> obj["created"],
          date |-> Slice(obj["created"], DateLen)]
    ELSE [err |-> "none", full_date |-> <<>>, date |-> <<>>]

\* RequiredHarvestMetadata.__init__
RequiredHarvestMetadata(obj) ==
    IF "created" \in DOMAIN obj
    THEN [err |-> "none", full_date |-> obj["created"],
          date |-> Slice(obj["created"], DateLen)]
    ELSE [err |-> "ValueError", full_date |-> <<>>, date |-> <<>>]

Field(obj, key) == IF key \in DOMAIN obj THEN {obj[key]} ELSE {}

\* OptionalHarvestMetadata.__init__
OptionalHarvestMetadata(obj) ==
    [title          |-> Field(obj, "title"),
     software       |-> Field(obj, "software"),
     main_page_url  |-> Field(obj, "mainPageUrl"),
     main_page_date |-> Field(obj, "mainPageDate")]

\* HarvestMetadata.__init__
HarvestMetadata(obj) ==
    [required |-> RequiredHarvestMetadata(obj),
     optional |-> OptionalHarvestMetadata(obj)]

NoMetadata == [required |-> [err |-> "none", full_date |-> <<>>, date |-> <<>>],
               optional |-> OptionalHarvestMetadata(<<>>)]

\* the name with the extension alone removed
get_harvest_name_last_dot(filename, meta) ==
    HARVEST_NAME_PREFIX \o <<"-">> \o meta.required.date \o <<"-">>
        \o SplitLastDot(Basename(filename))

\* get_harvest_name
get_harvest_name(filename, meta) ==
    HARVEST_NAME_PREFIX \o <<"-">> \o meta.required.date \o <<"-">>
        \o SplitFirstDot(Basename(filename))

(***************************************************************************)
(* The steps of the conversion, as functions of the filesystem.            *)
(***************************************************************************)
\* one pass of the loop of extract_from_to
ExtractFromToStep(f, zip_info, from_path, to_path) ==
    IF ~StartsWith(zip_info.filename, from_path) THEN Ok(f)
    ELSE LET extracted == ZipExtract(f, zip_info, to_path)
             filename_without_path == Basename(zip_info.filename)
             moved == ShutilMove(extracted.fs,
                                 PathJoin(to_path, zip_info.filename),
                                 PathJoin(to_path, filename_without_path))
         IN  IF extracted.err # "none" THEN extracted
             ELSE IF moved.err # "none" THEN moved
             ELSE OsRmdir(moved.fs, PathJoin(to_path, from_path))

\* the rename that leaves data.warc.gz in place beside its copy
RenameDataWarcCopy(f, harvest_path, name) ==
    LET data_warc_path == Resolve(PathJoin(harvest_path, DATA_WARC_GZ))
        correct_warc_path == Resolve(PathJoin(harvest_path, name \o WARC_GZ))
    IN  IF IsFile(f, data_warc_path)
        THEN Ok(WriteFile(f, correct_warc_path, f.files[data_warc_path]))
        ELSE Ok(f)

\* extract_warcs after extract_from_to: data.warc.gz gets its unique name
RenameDataWarc(f, harvest_path, name) ==
    LET data_warc_path == Resolve(PathJoin(harvest_path, DATA_WARC_GZ))
        correct_warc_path == Resolve(PathJoin(harvest_path, name \o WARC_GZ))
    IN  IF Exists(f, data_warc_path)
        THEN OsRename(f, data_warc_path, correct_warc_path)
        ELSE Ok(f)

\* Python's truth value of an optional field: None and "" are false
Truthy(o) == \E v \in o : v # <<>>

OptionalLine(key, o) ==
    IF Truthy(o) THEN <<[key |-> key, value |-> CHOOSE v \in o : TRUE]>> ELSE <<>>

\* the lines create_info_file prints
InfoLines(meta, wacz_file_name, name, today) ==
    <<[key |-> "info", value |-> "this harvest was extracted from WACZ file"],
      [key |-> "original_file", value |-> wacz_file_name],
      [key |-> "converted_with", value |-> <<SCRIPT_NAME, SCRIPT_VERSION>>],
      [key |-> "conversion_date", value |-> today],
      [key |-> "harvest_name", value |-> name],
      [key |-> "wacz_created", value |-> meta.required.full_date]>>
    \o OptionalLine("wacz_title", meta.optional.title)
    \o OptionalLine("wacz_software", meta.optional.software)
    \o OptionalLine("wacz_main_page_url", meta.optional.main_page_url)
    \o OptionalLine("wacz_main_page_date", meta.optional.main_page_date)

\* create_info_file: open(info_file_path, "w") and the prints
CreateInfoFile(f, meta, harvest_path, wacz_file_name, name, today) ==
    LET info_file_path == Resolve(PathJoin(harvest_path, LOGS_CRAWL_INFO)) IN
    IF ~IsDir(f, Parent(info_file_path)) THEN Raise(f, "FileNotFoundError")
    ELSE IF IsDir(f, info_file_path) THEN Raise(f, "IsADirectoryError")
    ELSE Ok(WriteFile(f, info_file_path,
                      InfoLines(meta, wacz_file_name, name, today)))

(***************************************************************************)
(* The conversions.                                                        *)
(***************************************************************************)
NotRaised == [kind |-> "none", at |-> "none"]
HarvestPath(p) == PathJoin(TARGET_PATH, harvest_name[p])

Fail(p, kind) ==
    /\ pc' = [pc EXCEPT ![p] = "failed"]
    /\ raised' = [raised EXCEPT ![p] = [kind |-> kind, at |-> pc[p]]]

Goto(p, next) ==
    /\ pc' = [pc EXCEPT ![p] = next]
    /\ UNCHANGED raised

\* a filesystem step of p: its effect, then on to next or out by the exception
FsStep(p, r, next) ==
    /\ fs' = r.fs
    /\ IF r.err = "none" THEN Goto(p, next) ELSE Fail(p, r.err)

\* get_harvest_metadata
GetHarvestMetadata(p) ==
    /\ pc[p] = "get_harvest_metadata"
    /\ IF datapackage.kind = "missing"
       THEN Fail(p, "KeyError") /\ UNCHANGED harvest_metadata
       ELSE IF datapackage.kind = "malformed"
            THEN Fail(p, "JSONDecodeError") /\ UNCHANGED harvest_metadata
       ELSE IF HarvestMetadata(datapackage.object).required.err # "none"
            THEN /\ Fail(p, HarvestMetadata(datapackage.object).required.err)
                 /\ UNCHANGED harvest_metadata
       ELSE /\ harvest_metadata' =
                   [harvest_metadata EXCEPT ![p] = HarvestMetadata(datapackage.object)]
            /\ Goto(p, "get_harvest_name")
    /\ UNCHANGED <<wacz_path, datapackage, filelist, fs, harvest_name, idx>>

\* prepare_and_run, lines 39-40
GetHarvestName(p) ==
    /\ pc[p] = "get_harvest_name"
    /\ harvest_name' = [harvest_name EXCEPT
                           ![p] = get_harvest_name(wacz_path, harvest_metadata[p])]
    /\ Goto(p, "mkdir_root")
    /\ UNCHANGED <<wacz_path, datapackage, filelist, fs, harvest_metadata, idx>>

\* create_directory_structure: its four os.mkdir calls
MkdirRoot(p) ==
    /\ pc[p] = "mkdir_root"
    /\ FsStep(p, OsMkdir(fs, HarvestPath(p)), "mkdir_logs")
    /\ UNCHANGED <<wacz_path, datapackage, filelist, harvest_metadata, harvest_name, idx>>

MkdirLogs(p) ==
    /\ pc[p] = "mkdir_logs"
    /\ FsStep(p, OsMkdir(fs, PathJoin(HarvestPath(p), LOGS)), "mkdir_cdx")
    /\ UNCHANGED <<wacz_path, datapackage, filelist, harvest_metadata, harvest_name, idx>>

MkdirCdx(p) ==
    /\ pc[p] = "mkdir_cdx"
    /\ FsStep(p, OsMkdir(fs, PathJoin(HarvestPath(p), LOGS_CDX)), "mkdir_crawl")
    /\ UNCHANGED <<wacz_path, datapackage, filelist, harvest_metadata, harvest_name, idx>>

MkdirCrawl(p) ==
    /\ pc[p] = "mkdir_crawl"
    /\ FsStep(p, OsMkdir(fs, PathJoin(HarvestPath(p), LOGS_CRAWL)), "extract_from_to")
    /\ UNCHANGED <<wacz_path, datapackage, filelist, harvest_metadata, harvest_name, idx>>

\* extract_from_to: one entry of the file list
ExtractFromTo(p) ==
    /\ pc[p] = "extract_from_to"
    /\ idx[p] <= Len(filelist)
    /\ LET r == ExtractFromToStep(fs, filelist[idx[p]], ARCHIVE_ZIP_PATH, HarvestPath(p))
       IN  /\ FsStep(p, r, "extract_from_to")
           /\ idx' = [idx EXCEPT ![p] = IF r.err = "none" THEN @ + 1 ELSE @]
    /\ UNCHANGED <<wacz_path, datapackage, filelist, harvest_metadata, harvest_name>>

\* extract_warcs, lines 101-105, once the loop has ended
ExtractWarcsRename(p) ==
    /\ pc[p] = "extract_from_to"
    /\ idx[p] > Len(filelist)
    /\ FsStep(p, RenameDataWarc(fs, HarvestPath(p), harvest_name[p]), "create_info_file")
    /\ UNCHANGED <<wacz_path, datapackage, filelist, harvest_metadata, harvest_name, idx>>

Clock == {<<"t", "1">>, <<"t", "2">>}

\* create_info_file, at whatever time datetime.now() gives
CreateInfo(p) ==
    /\ pc[p] = "create_info_file"
    /\ \E today \in Clock :
          FsStep(p, CreateInfoFile(fs, harvest_metadata[p], HarvestPath(p),
                                   Basename(wacz_path), harvest_name[p], today),
                 "done")
    /\ UNCHANGED <<wacz_path, datapackage, filelist, harvest_metadata, harvest_name, idx>>

Next ==
    \E p \in Procs :
        \/ GetHarvestMetadata(p)
        \/ GetHarvestName(p)
        \/ MkdirRoot(p)
        \/ MkdirLogs(p)
        \/ MkdirCdx(p)
        \/ MkdirCrawl(p)
        \/ ExtractFromTo(p)
        \/ ExtractWarcsRename(p)
        \/ CreateInfo(p)

(***************************************************************************)
(* Inputs.                                                                 *)
(***************************************************************************)
Strings(alphabet, n) == UNION {[1..k -> alphabet] : k \in 0..n}

\* the parsed datapackage.json with the given fields, each {} or {value}
Object(created, title, software, url, date) ==
    LET given == [k \in {"created", "title", "software", "mainPageUrl", "mainPageDate"} |->
                     CASE k = "created" -> created
                       [] k = "title" -> title
                       [] k = "software" -> software
                       [] k = "mainPageUrl" -> url
                       [] OTHER -> date]
    IN  Parsed([k \in {x \in DOMAIN given : given[x] # {}} |->
                   CHOOSE v \in given[k] : TRUE])

\* an entry of the archive: a file's bytes are told apart by its name, a
\* directory marker has none
Entry(name) ==
    [filename |-> name,
     data |-> IF name[Len(name)] = "/" THEN <<>>
              ELSE <<[key |-> "bytes", value |-> name]>>]

CREATED_0 == <<"2", "0", "2", "4", "-", "0", "3", "-", "1", "5">>
WACZ_PATH_0 == <<"i", "n", "/", "c", ".", "1", ".", "w", "a", "c", "z">>
HARVEST_NAME_0 ==
    get_harvest_name(WACZ_PATH_0, HarvestMetadata([created |-> CREATED_0]))

EntryNames ==
    {ARCHIVE_ZIP_PATH \o DATA_WARC_GZ,
     ARCHIVE_ZIP_PATH \o HARVEST_NAME_0 \o WARC_GZ,
     ARCHIVE_ZIP_PATH \o <<"a">>,
     ARCHIVE_ZIP_PATH \o <<"s", "/", "a">>,
     ARCHIVE_ZIP_PATH,
     ARCHIVE_ZIP_PATH \o <<"s", "/">>,
     ARCHIVE_ZIP_PATH \o LOGS,
     INDEXES_ZIP_PATH \o <<"i">>}

\* file lists of at most n entries with distinct names
FileLists(n) ==
    {z \in UNION {[1..k -> {Entry(e) : e \in EntryNames}] : k \in 0..n} :
        \A i, j \in 1..Len(z) : i # j => z[i] # z[j]}

EmptyFs == [dirs |-> {<<>>, Resolve(TARGET_PATH)}, files |-> <<>>]

Launch(launched) ==
    /\ fs = EmptyFs
    /\ pc = [p \in Procs |-> IF p \in launched THEN "get_harvest_metadata" ELSE "off"]
    /\ harvest_metadata = [p \in Procs |-> NoMetadata]
    /\ harvest_name = [p \in Procs |-> <<>>]
    /\ idx = [p \in Procs |-> 1]
    /\ raised = [p \in Procs |-> NotRaised]

\* conversions of one archive into one target directory, all launched
Init ==
    /\ wacz_path = WACZ_PATH_0
    /\ datapackage \in {MISSING, MALFORMED}
           \cup {Object(c, {<<"x">>}, {}, {}, {}) : c \in {{}, {CREATED_0}}}
    /\ filelist \in FileLists(MaxEntries)
    /\ Launch(Procs)

Spec == Init /\ [][Next]_vars

\* one conversion, over the manifests' optional fields
OptionalValues == {{}, {<<>>}, {<<"x">>}}

InitInfo ==
    /\ wacz_path = WACZ_PATH_0
    /\ datapackage \in {Object({CREATED_0}, t, s, u, d) :
                           t \in OptionalValues, s \in OptionalValues,
                           u \in OptionalValues, d \in OptionalValues}
    /\ filelist \in FileLists(1)
    /\ Launch({1})

SpecInfo == InitInfo /\ [][Next]_vars

\* one conversion, over the strings the name is made of
CreatedAlphabet == {"2", "/"}
PathAlphabet == {"a", ".", "/"}

\* a path that can name a file: not empty, no trailing "/", not "." or ".."
IsFilePath(s) ==
    /\ s # <<>>
    /\ Basename(s) \notin {<<>>, <<".">>, <<".", ".">>}

InitName ==
    /\ wacz_path \in {s \in Strings(PathAlphabet, MaxPathLen) : IsFilePath(s)}
    /\ datapackage \in {Object({c}, {}, {}, {}, {}) :
                           c \in Strings(CreatedAlphabet, MaxCreatedLen)}
    /\ filelist = <<Entry(ARCHIVE_ZIP_PATH \o <<"a">>)>>
    /\ Launch({1})

SpecName == InitName /\ [][Next]_vars

(***************************************************************************)
(* Vocabulary of the properties.                                           *)
(***************************************************************************)
Root(p) == Resolve(HarvestPath(p))
InfoPath(p) == Root(p) \o <<LOGS, <<"c", "r", "a", "w", "l">>,
                            <<"i", "n", "f", "o", ".", "t", "x", "t">>>>
Stepped(p) == pc'[p] # pc[p] \/ idx'[p] # idx[p]
HasCreated == datapackage.kind = "object" /\ "created" \in DOMAIN datapackage.object

\* p has computed its collection identifier
Named(p) ==
    /\ pc[p] \notin {"off", "get_harvest_metadata", "get_harvest_name"}
    /\ raised[p].at # "get_harvest_metadata"

\* p has made its os.mkdir call on the root directory
Attempted(p) == Named(p) /\ pc[p] # "mkdir_root"
Lost(p) == raised[p] = [kind |-> "FileExistsError", at |-> "mkdir_root"]
CreatedRoot(p) == Attempted(p) /\ raised[p].at # "mkdir_root"

\* p has built the skeleton and its conversion is over
Converted(p) ==
    /\ pc[p] \in {"done", "failed"}
    /\ raised[p].at \in {"none", "extract_from_to", "create_info_file"}

\* extract_warcs has returned to prepare_and_run
ExtractWarcsReturned(p) == pc[p] \in {"create_info_file", "done"}

CaptureEntries ==
    {i \in 1..Len(filelist) : /\ StartsWith(filelist[i].filename, ARCHIVE_ZIP_PATH)
                              /\ ~IsDirEntry(filelist[i])}
MarkerEntries ==
    {i \in 1..Len(filelist) : /\ StartsWith(filelist[i].filename, ARCHIVE_ZIP_PATH)
                              /\ IsDirEntry(filelist[i])}
DataWarcEntries ==
    {i \in 1..Len(filelist) : filelist[i].filename = ARCHIVE_ZIP_PATH \o DATA_WARC_GZ}

\* the final path component of entry i, data.warc.gz under its unique name
FlatName(p, i) ==
    LET tail == Last(SplitSep(filelist[i].filename)) IN
    IF tail = DATA_WARC_GZ THEN harvest_name[p] \o WARC_GZ ELSE tail

(***************************************************************************)
(* C1: when datapackage.json has no "created" key, every conversion ends   *)
(* in the ValueError of RequiredHarvestMetadata, raised while the          *)
(* metadata is read, and the filesystem is as it was before the call: no   *)
(* directory and no file has been created.                                 *)
(***************************************************************************)
C1_MissingCreatedLeavesFsUntouched ==
    (datapackage.kind = "object" /\ ~HasCreated) =>
        /\ fs = EmptyFs
        /\ \A p \in Procs :
              \/ pc[p] \in {"off", "get_harvest_metadata"}
              \/ /\ pc[p] = "failed"
                 /\ raised[p] = [kind |-> "ValueError", at |-> "get_harvest_metadata"]

C1_Witness ==
    /\ datapackage.kind = "object" /\ ~HasCreated
    /\ \E p \in Procs : pc[p] = "failed" /\ raised[p].kind = "ValueError"

(***************************************************************************)
(* C2: once the name is computed, full_date is the "created" string, date  *)
(* is its first 7 characters (all of it when shorter), and the collection  *)
(* identifier is "Linkra-" date "-" t, t being the part of the base        *)
(* filename (what follows the last "/" of the archive path) before its     *)
(* first ".", the whole of it when it has no ".".                          *)
(***************************************************************************)
C2_HarvestNameShape ==
    \A p \in Procs : Named(p) =>
        LET created == datapackage.object["created"]
            req == harvest_metadata[p].required
        IN  /\ req.full_date = created
            /\ Len(req.date) = (IF Len(created) < 7 THEN Len(created) ELSE 7)
            /\ \A i \in 1..Len(req.date) : req.date[i] = created[i]
            /\ \E k \in 0..Len(wacz_path) : \E n \in 0..(Len(wacz_path) - k) :
                  /\ k = 0 \/ wacz_path[k] = "/"
                  /\ \A j \in (k + 1)..Len(wacz_path) : wacz_path[j] # "/"
                  /\ \A j \in (k + 1)..(k + n) : wacz_path[j] # "."
                  /\ k + n = Len(wacz_path) \/ wacz_path[k + n + 1] = "."
                  /\ harvest_name[p] =
                        <<"L", "i", "n", "k", "r", "a", "-">> \o req.date \o <<"-">>
                            \o SubSeq(wacz_path, k + 1, k + n)

\* a name computed from a long timestamp and a base filename with a leading
\* dot and a second dot
C2_Witness ==
    \E p \in Procs :
        /\ Named(p)
        /\ Len(datapackage.object["created"]) > 7
        /\ Len(wacz_path) >= 3
        /\ wacz_path[1] = "." /\ wacz_path[3] = "."
        /\ \A j \in 1..Len(wacz_path) : wacz_path[j] # "/"

(***************************************************************************)
(* C3: after a conversion that built the skeleton, every file entry under  *)
(* "archive/" is in the destination root under its final path component    *)
(* (data.warc.gz under its unique name) with the entry's bytes, and the    *)
(* root holds no "archive" directory.  Stated for the archives that hold   *)
(* no directory marker under "archive/".                                   *)
(***************************************************************************)
C3_RoundTrip ==
    \A p \in Procs : (Converted(p) /\ MarkerEntries = {}) =>
        /\ \A i \in CaptureEntries :
              /\ IsFile(fs, Root(p) \o <<FlatName(p, i)>>)
              /\ fs.files[Root(p) \o <<FlatName(p, i)>>] = filelist[i].data
        /\ ~Exists(fs, Root(p) \o <<<<"a", "r", "c", "h", "i", "v", "e">>>>)

(***************************************************************************)
(* C4: when extract_warcs has returned and the archive holds               *)
(* archive/data.warc.gz, the root has no data.warc.gz and has              *)
(* <collection-identifier>.warc.gz with that entry's bytes; and the rename *)
(* step taken when the root has no data.warc.gz raises nothing and leaves  *)
(* the filesystem as it was.                                               *)
(***************************************************************************)
C4_Renamed ==
    \A p \in Procs : ExtractWarcsReturned(p) =>
        \A i \in DataWarcEntries :
            /\ ~Exists(fs, Root(p) \o <<DATA_WARC_GZ>>)
            /\ IsFile(fs, Root(p) \o <<harvest_name[p] \o WARC_GZ>>)
            /\ fs.files[Root(p) \o <<harvest_name[p] \o WARC_GZ>>] = filelist[i].data

C4_NoOp ==
    \A p \in Procs :
        (/\ pc[p] = "extract_from_to" /\ idx[p] > Len(filelist)
         /\ Stepped(p)
         /\ ~Exists(fs, Root(p) \o <<DATA_WARC_GZ>>))
        => (fs' = fs /\ pc'[p] = "create_info_file")

\* C4: data.warc.gz ends under its unique name with its bytes, and the
\* rename step without a data.warc.gz is a silent no-op
C4_DataWarcRenamed == []C4_Renamed /\ [][C4_NoOp]_vars

C4_Witness ==
    \E p \in Procs :
        /\ pc[p] = "done"
        /\ DataWarcEntries # {}
        /\ IsFile(fs, Root(p) \o <<harvest_name[p] \o WARC_GZ>>)

(***************************************************************************)
(* C5: in the info.txt of a finished conversion, each of the four optional *)
(* keys has its line "wacz_<field>: <value>" exactly when the manifest has *)
(* the key, whatever the value.                                            *)
(***************************************************************************)
OptionalKeys ==
    {<<"title", "wacz_title">>, <<"software", "wacz_software">>,
     <<"mainPageUrl", "wacz_main_page_url">>, <<"mainPageDate", "wacz_main_page_date">>}

C5_OptionalLines ==
    \A p \in Procs : pc[p] = "done" =>
        LET lines == fs.files[InfoPath(p)] IN
        \A k \in OptionalKeys :
            (k[1] \in DOMAIN datapackage.object)
                <=> (\E i \in 1..Len(lines) :
                        /\ lines[i].key = k[2]
                        /\ lines[i].value = datapackage.object[k[1]])

(***************************************************************************)
(* C6: every step a conversion takes once another conversion of the same   *)
(* archive into the same directory is done leaves the filesystem as it is; *)
(* it gets no further than its os.mkdir of the root, which raises          *)
(* FileExistsError.                                                        *)
(***************************************************************************)
C6_SecondRunStep ==
    \A p \in Procs :
        (Stepped(p) /\ \E q \in Procs \ {p} : pc[q] = "done") =>
            /\ fs' = fs
            /\ pc'[p] \in {"get_harvest_name", "mkdir_root", "failed"}
            /\ pc[p] = "mkdir_root" =>
                  /\ pc'[p] = "failed"
                  /\ raised'[p] = [kind |-> "FileExistsError", at |-> "mkdir_root"]

\* C6: a second run fails at its first os.mkdir with FileExistsError and
\* modifies nothing of the first run's output
C6_SecondRunFails == [][C6_SecondRunStep]_vars

C6_Witness ==
    \E p, q \in Procs :
        /\ pc[q] = "done"
        /\ pc[p] = "failed" /\ Lost(p)
        /\ IsFile(fs, InfoPath(q))

(***************************************************************************)
(* C7: of the conversions that have called os.mkdir on the same root under *)
(* an existing target directory, exactly one created it and every other    *)
(* one raised FileExistsError there; the step that makes a loser changes   *)
(* nothing, and every change of the filesystem is a step of the one that   *)
(* created the root.                                                       *)
(***************************************************************************)
C7_OneWinner ==
    LET tried == {p \in Procs : Attempted(p)} IN
    tried # {} =>
        \E w \in tried : /\ CreatedRoot(w)
                         /\ \A l \in tried \ {w} : Lost(l) /\ pc[l] = "failed"

C7_LoserStep ==
    /\ \A p \in Procs : (Stepped(p) /\ Lost(p)') => fs' = fs
    /\ fs' # fs => \E w \in Procs : Stepped(w) /\ CreatedRoot(w)'

\* C7: concurrent conversions into one root have one winner; the losers
\* raise FileExistsError and write nothing
C7_RaceOnRoot == []C7_OneWinner /\ [][C7_LoserStep]_vars

C7_Witness ==
    \E w, l \in Procs :
        /\ w # l
        /\ pc[w] = "done"
        /\ Lost(l)
        /\ pc[l] = "failed"

(***************************************************************************)
(* C8: no step replaces the contents of a file that exists: a relocation   *)
(* or a rename onto an existing file leaves that file as it was.  Stated   *)
(* for the archives whose entries under "archive/" are files directly      *)
(* under it.                                                               *)
(***************************************************************************)
FlatArchive ==
    \A i \in 1..Len(filelist) :
        StartsWith(filelist[i].filename, ARCHIVE_ZIP_PATH) =>
            /\ ~IsDirEntry(filelist[i])
            /\ Len(SplitSep(filelist[i].filename)) = 2

C8_KeepsExistingFile ==
    FlatArchive =>
        \A path \in DOMAIN fs.files :
            path \in DOMAIN fs'.files => fs'.files[path] = fs.files[path]

\* C8: neither the relocation nor the rename overwrites an existing file
C8_NoSilentOverwrite == [][C8_KeepsExistingFile]_vars

(***************************************************************************)
(* C9: the loop of extract_from_to never raises on a directory marker      *)
(* under "archive/".                                                       *)
(***************************************************************************)
C9_MarkerSkipped ==
    \A p \in Procs :
        (pc[p] = "failed" /\ raised[p].at = "extract_from_to")
            => idx[p] \notin MarkerEntries

(***************************************************************************)
(* C10: the collection identifier holds no "/", and the destination root   *)
(* is a direct child of the target directory.                              *)
(***************************************************************************)
C10_NoSeparator ==
    \A p \in Procs : Named(p) =>
        /\ \A i \in 1..Len(harvest_name[p]) : harvest_name[p][i] # "/"
        /\ Parent(Root(p)) = Resolve(TARGET_PATH)

====
